---- MODULE Spec2Model ----
(***************************************************************************)
(* EKF SLAM with unknown correspondences                                   *)
(* (src/src/EKF_SLAM/EKF_SLAM_unknown_correspondences.py).                 *)
(*                                                                         *)
(* The filter is modelled as the event loop of                             *)
(* ExtendedKalmanFilterSLAM.__init__: one row of self.data is pulled per   *)
(* iteration and handed to motion_update or to data_association followed   *)
(* by measurement_update.                                                  *)
(*                                                                         *)
(* Numbers.  The arithmetic of the filter is modelled without rounding.   *)
(* Timestamps, speeds, ranges and the entries of R and Q are rationals     *)
(* <<num, den>>.  The covariance and the matrices that meet it (G, H, Psi, *)
(* K) are matrices of integers of any length over one common denominator,  *)
(* so that 1e-6 and 1e6 and what the filter makes of them are held         *)
(* exactly.                                                                *)
(* np.pi is the symbol pi: angles, the state vector, the innovation and    *)
(* the Mahalanobis distance are <<c0, c1, c2>> = c0 + c1*pi + c2*pi^2 with *)
(* rational coefficients, compared through the enclosure                   *)
(* 25/8 < pi < 22/7.  np.cos, np.sin, np.arctan2 and np.sqrt are defined   *)
(* on the arguments where their value is exact (quarter turns, axis-       *)
(* aligned offsets); a row whose handler would need them elsewhere, whose  *)
(* offset lies on the branch cut of np.arctan2, or whose comparison the    *)
(* enclosure does not decide, is not drawn (MotionComputable,              *)
(* AssociationComputable).  0/0 is NaN, as in numpy.                       *)
(***************************************************************************)
EXTENDS Integers, Sequences, FiniteSets, TLC

(* -------------------------------- arrays ------------------------------- *)
\* numpy arrays are indexed from 0; a[k] of the source is At(a, k) here.
At(a, k) == a[k + 1]
AtPut(a, k, x) == [a EXCEPT ![k + 1] = x]
At2Put(m, i, j, x) == [m EXCEPT ![i + 1][j + 1] = x]

Rows(m) == Len(m)
Cols(m) == Len(m[1])

\* the array with entries f[1], ..., f[n], held as a tuple
Vec(f) == SubSeq(f, 1, Len(f))
\* the matrix with rows f[1], ..., f[n], each held as a tuple
Mat(f) == Vec([i \in 1..Len(f) |-> Vec(f[i])])

(* ------------------------------ rationals ------------------------------ *)
Abs(a) == IF a < 0 THEN -a ELSE a

RECURSIVE GCD(_, _)
GCD(a, b) == IF b = 0 THEN a ELSE GCD(b, a % b)

Lcm(a, b) == (a \div GCD(a, b)) * b

Rat(n, d) ==
    LET g == GCD(Abs(n), Abs(d))
        s == IF d < 0 THEN -1 ELSE 1
    IN  <<(s * n) \div g, (s * d) \div g>>

Zero == <<0, 1>>
One == <<1, 1>>

(* ---------------------------- wide integers ---------------------------- *)
\* An integer that 32 bits may not hold is the sequence of its digits in base
\* Base, the lowest first.  The digits have the sign of the number, the last one
\* is not 0, and <<>> is 0.
Base == 1000

RECURSIVE Carry(_, _, _, _)
\* the digits of s brought into 0..Base-1 from position i on, with carry c; the
\* result is <<digits, -1>> for a negative number
Carry(s, i, c, acc) ==
    IF i > Len(s)
    THEN IF c = 0 \/ c = -1 THEN <<acc, c>>
         ELSE Carry(s, i, c \div Base, Append(acc, c % Base))
    ELSE Carry(s, i + 1, (s[i] + c) \div Base, Append(acc, (s[i] + c) % Base))

RECURSIVE Strip(_)
Strip(s) ==
    IF s = <<>> THEN s
    ELSE IF s[Len(s)] = 0 THEN Strip(SubSeq(s, 1, Len(s) - 1)) ELSE s

Minus(s) == Vec([i \in 1..Len(s) |-> -s[i]])

\* the digits of the integer that the (signed, unbounded) digits s add up to
Signed(s, carried) ==
    IF carried[2] = 0 THEN Strip(carried[1])
    ELSE Minus(Strip(Carry(Minus(s), 1, 0, <<>>)[1]))
Norm(s) == Signed(s, Carry(s, 1, 0, <<>>))

Big(n) == Norm(<<n>>)
BSign(a) == IF a = <<>> THEN 0 ELSE IF a[Len(a)] > 0 THEN 1 ELSE -1
BNeg(a) == Minus(a)
Digit(a, i) == IF i <= Len(a) THEN a[i] ELSE 0

BAdd(a, b) ==
    IF a = <<>> THEN b
    ELSE IF b = <<>> THEN a
    ELSE Norm(Vec([i \in 1..(IF Len(a) > Len(b) THEN Len(a) ELSE Len(b)) |->
                      Digit(a, i) + Digit(b, i)]))
BSub(a, b) == BAdd(a, BNeg(b))

RECURSIVE Convolve(_, _, _, _)
\* the sum of a[i] * b[k + 1 - i] from i on
Convolve(a, b, k, i) ==
    IF i > Len(a) \/ i > k THEN 0
    ELSE a[i] * b[k + 1 - i] + Convolve(a, b, k, i + 1)

\* the digits of a * b before the carries
Raw(a, b) ==
    IF a = <<>> \/ b = <<>> THEN <<>>
    ELSE IF a = <<1>> THEN b
    ELSE IF b = <<1>> THEN a
    ELSE Vec([k \in 1..(Len(a) + Len(b) - 1) |->
                 Convolve(a, b, k, IF k > Len(b) THEN k + 1 - Len(b) ELSE 1)])

BMul(a, b) == Norm(Raw(a, b))

RECURSIVE DigitSum(_, _, _)
\* the digits at position i of f[1], ..., f[n], added
DigitSum(f, n, i) == IF n = 0 THEN 0 ELSE DigitSum(f, n - 1, i) + Digit(f[n], i)

RECURSIVE Longest(_, _)
Longest(f, n) ==
    IF n = 0 THEN 0
    ELSE IF Len(f[n]) > Longest(f, n - 1) THEN Len(f[n]) ELSE Longest(f, n - 1)

\* f[1] + ... + f[n], for digits before the carries
BSum(f, n) == Norm(Vec([i \in 1..Longest(f, n) |-> DigitSum(f, n, i)]))

(* ------------------------------- scalars ------------------------------- *)
\* A float64 is modelled exactly: <<n, d>> is the rational n / d in lowest terms,
\* d > 0.  A value that comes out of the covariance is <<N, D, m>>: the rational
\* N / (D * m) with wide integers N # 0 and D > 0 and an integer m > 0, not
\* reduced to lowest terms.
IsWide(a) == Len(a) = 3
Widen(a) == IF IsWide(a) THEN a ELSE <<Big(a[1]), <<1>>, a[2]>>
Wide(N, D, m) == IF N = <<>> THEN Zero ELSE <<N, D, m>>

WAdd(a, b) ==
    IF a[2] = b[2]
    THEN Wide(BAdd(BMul(a[1], Big(Lcm(a[3], b[3]) \div a[3])),
                   BMul(b[1], Big(Lcm(a[3], b[3]) \div b[3]))),
              a[2], Lcm(a[3], b[3]))
    ELSE Wide(BAdd(BMul(BMul(a[1], b[2]), Big(b[3])), BMul(BMul(b[1], a[2]), Big(a[3]))),
              BMul(a[2], b[2]), a[3] * b[3])

WMul(a, b) ==
    Wide(BMul(a[1], b[1]), BMul(a[2], b[2]), a[3] * b[3])

\* -1, 0 or 1
RSign(a) ==
    IF IsWide(a) THEN BSign(a[1])
    ELSE IF a[1] > 0 THEN 1 ELSE IF a[1] < 0 THEN -1 ELSE 0

RNeg(a) == IF IsWide(a) THEN <<BNeg(a[1]), a[2], a[3]>> ELSE <<-a[1], a[2]>>

RAdd(a, b) ==
    IF a = Zero THEN b
    ELSE IF b = Zero THEN a
    ELSE IF IsWide(a) \/ IsWide(b) THEN WAdd(Widen(a), Widen(b))
    ELSE LET g == GCD(a[2], b[2])
         IN  Rat(a[1] * (b[2] \div g) + b[1] * (a[2] \div g), (a[2] \div g) * b[2])

RSub(a, b) == RAdd(a, RNeg(b))

RMul(a, b) ==
    IF a = Zero \/ b = Zero THEN Zero
    ELSE IF IsWide(a) \/ IsWide(b) THEN WMul(Widen(a), Widen(b))
    ELSE LET g1 == GCD(Abs(a[1]), b[2])
             g2 == GCD(Abs(b[1]), a[2])
         IN  <<(a[1] \div g1) * (b[1] \div g2), (a[2] \div g2) * (b[2] \div g1)>>

\* a / b for rationals a and b # 0
RDiv(a, b) == RMul(a, IF b[1] < 0 THEN <<-b[2], -b[1]>> ELSE <<b[2], b[1]>>)

RECURSIVE PlainLt(_, _)
\* a < b for rationals, compared by whole parts and then (reciprocally) by the
\* remainders, so that no product of a numerator and a denominator is formed
PlainLt(a, b) ==
    LET qa == a[1] \div a[2]
        qb == b[1] \div b[2]
        ra == a[1] % a[2]
        rb == b[1] % b[2]
    IN  IF qa # qb THEN qa < qb
        ELSE IF rb = 0 THEN FALSE
        ELSE IF ra = 0 THEN TRUE
        ELSE PlainLt(<<b[2], rb>>, <<a[2], ra>>)

\* a < b
RLt(a, b) == IF IsWide(a) \/ IsWide(b) THEN RSign(RSub(b, a)) = 1 ELSE PlainLt(a, b)

(* ------------------------------- matrices ------------------------------ *)
\* np.identity(n)
Identity(n) == Mat([i \in 1..n |-> [j \in 1..n |-> IF i = j THEN One ELSE Zero]])

RECURSIVE RowLcm(_, _)
\* the least common multiple of the denominators of r[1], ..., r[n]
RowLcm(r, n) == IF n = 0 THEN 1 ELSE Lcm(RowLcm(r, n - 1), r[n][2])

RECURSIVE MatLcm(_, _)
MatLcm(A, n) == IF n = 0 THEN 1 ELSE Lcm(MatLcm(A, n - 1), RowLcm(A[n], Len(A[n])))

\* A matrix the filter computes with is <<N, d>>: the matrix of wide integers N
\* over the one wide integer d > 0, entry [i][j] being N[i][j] / d (not reduced
\* to lowest terms).  ScaledBy puts a matrix of rationals over the multiple L of
\* its denominators.
ScaledBy(A, L) ==
    <<Mat([i \in 1..Rows(A) |-> [j \in 1..Cols(A) |->
              BMul(Big(A[i][j][1]), Big(L \div A[i][j][2]))]]),
      Big(L)>>
Scaled(A) == ScaledBy(A, MatLcm(A, Rows(A)))

\* entry [i][j] of A, as a scalar
Entry(A, i, j) == Wide(A[1][i][j], A[2], 1)

\* the products and sums of A.dot(B) on the numerators
Products(N, M) ==
    Mat([i \in 1..Rows(N) |->
            [j \in 1..Cols(M) |->
                BSum(Vec([k \in 1..Cols(N) |-> Raw(N[i][k], M[k][j])]), Cols(N))]])

\* A.dot(B) for two matrices
Dot(A, B) == <<Products(A[1], B[1]), BMul(A[2], B[2])>>

\* A.T
Transpose(A) ==
    <<Mat([j \in 1..Cols(A[1]) |-> [i \in 1..Rows(A[1]) |-> A[1][i][j]]]), A[2]>>

\* every numerator of N times k
Times(N, k) == Mat([i \in 1..Rows(N) |-> [j \in 1..Cols(N) |-> BMul(N[i][j], k)]])

Sums(N, M) == Mat([i \in 1..Rows(N) |-> [j \in 1..Cols(N) |-> BAdd(N[i][j], M[i][j])]])

MatAdd(A, B) ==
    IF A[2] = B[2] THEN <<Sums(A[1], B[1]), A[2]>>
    ELSE <<Sums(Times(A[1], B[2]), Times(B[1], A[2])), BMul(A[2], B[2])>>
MatSub(A, B) == MatAdd(A, <<Times(B[1], <<-1>>), B[2]>>)

\* the determinant of a 3x3 matrix of wide integers
Det3(N) ==
    BAdd(BSub(BMul(N[1][1], BSub(BMul(N[2][2], N[3][3]), BMul(N[2][3], N[3][2]))),
              BMul(N[1][2], BSub(BMul(N[2][1], N[3][3]), BMul(N[2][3], N[3][1])))),
         BMul(N[1][3], BSub(BMul(N[2][1], N[3][2]), BMul(N[2][2], N[3][1]))))

\* the 2x2 minor of N without row i and column j
Minor(N, i, j) ==
    LET r == IF i = 1 THEN <<2, 3>> ELSE IF i = 2 THEN <<1, 3>> ELSE <<1, 2>>
        c == IF j = 1 THEN <<2, 3>> ELSE IF j = 2 THEN <<1, 3>> ELSE <<1, 2>>
    IN  BSub(BMul(N[r[1]][c[1]], N[r[2]][c[2]]), BMul(N[r[1]][c[2]], N[r[2]][c[1]]))

\* the cofactors of N, transposed, each times k
Adjugate(N, k) ==
    Mat([i \in 1..3 |->
            [j \in 1..3 |->
                BMul(Minor(N, j, i), IF (i + j) % 2 = 0 THEN k ELSE BNeg(k))]])

\* the inverse of the 3x3 matrix A whose numerators have the determinant det # 0
Inverse(A, det) ==
    IF BSign(det) > 0 THEN <<Adjugate(A[1], A[2]), det>>
    ELSE <<Adjugate(A[1], BNeg(A[2])), BNeg(det)>>

\* np.linalg.inv of an invertible 3x3 matrix
Inv3(A) == Inverse(A, Det3(A[1]))

\* np.linalg.inv raises LinAlgError("Singular matrix") on these
Singular(A) == Det3(A[1]) = <<>>

IsSymmetric(A) == \A i, j \in 1..Rows(A[1]) : A[1][i][j] = A[1][j][i]

(* --------------------------- numbers with pi --------------------------- *)
\* <<c0, c1, c2>> is c0 + c1 * pi + c2 * pi^2 with rational c0, c1, c2: the
\* values of the state vector, the angles of the rows, the innovation and the
\* Mahalanobis distance.  pi is transcendental, so two of them are equal exactly
\* when their coefficients are.
Num(r) == <<r, Zero, Zero>>
NZero == Num(Zero)
IsRational(p) == p[2] = Zero /\ p[3] = Zero

NNeg(p) == <<RNeg(p[1]), RNeg(p[2]), RNeg(p[3])>>
NAdd(p, q) == <<RAdd(p[1], q[1]), RAdd(p[2], q[2]), RAdd(p[3], q[3])>>
NSub(p, q) == NAdd(p, NNeg(q))
\* r * p for a rational r
NScale(r, p) == <<RMul(r, p[1]), RMul(r, p[2]), RMul(r, p[3])>>
\* p * q for p and q without a pi^2 part
NMul(p, q) ==
    <<RMul(p[1], q[1]),
      RAdd(RMul(p[1], q[2]), RMul(p[2], q[1])),
      RMul(p[2], q[2])>>

RECURSIVE NSum(_, _)
\* f[1] + ... + f[n]
NSum(f, n) == IF n = 0 THEN NZero ELSE NAdd(NSum(f, n - 1), f[n])

\* rationals that enclose pi
PiLow == <<25, 8>>
PiHigh == <<22, 7>>

\* a rational that p is at least, and one that it is at most
Lower(p) ==
    RAdd(p[1],
         RAdd(RMul(p[2], IF RSign(p[2]) >= 0 THEN PiLow ELSE PiHigh),
              RMul(p[3], IF RSign(p[3]) >= 0 THEN RMul(PiLow, PiLow) ELSE RMul(PiHigh, PiHigh))))
Upper(p) ==
    RAdd(p[1],
         RAdd(RMul(p[2], IF RSign(p[2]) >= 0 THEN PiHigh ELSE PiLow),
              RMul(p[3], IF RSign(p[3]) >= 0 THEN RMul(PiHigh, PiHigh) ELSE RMul(PiLow, PiLow))))

\* the enclosure of pi tells the sign of p
Decided(p) == p = NZero \/ RLt(Zero, Lower(p)) \/ RLt(Upper(p), Zero)
\* p < q, where the sign of q - p is Decided
NLt(p, q) == RLt(Zero, Lower(NSub(q, p)))

(* ----------------------------- trigonometry ---------------------------- *)
\* np.pi
PI == <<Zero, One, Zero>>
HalfPi == NScale(<<1, 2>>, PI)
TwoPi == NScale(<<2, 1>>, PI)

\* the angle is a whole number of quarter turns
OnGrid(a) == a[1] = Zero /\ a[3] = Zero /\ ~IsWide(a[2]) /\ RMul(<<2, 1>>, a[2])[2] = 1
Quarter(a) == RMul(<<2, 1>>, a[2])[1] % 4

\* np.cos, np.sin of a whole number of quarter turns
Cos(a) == LET k == Quarter(a) IN IF k = 0 THEN One ELSE IF k = 2 THEN <<-1, 1>> ELSE Zero
Sin(a) == LET k == Quarter(a) IN IF k = 1 THEN One ELSE IF k = 3 THEN <<-1, 1>> ELSE Zero

\* the offset lies along an axis (or is zero)
Aligned(dx, dy) == dx[1] = 0 \/ dy[1] = 0

\* The offset lies on the branch cut of np.arctan2, the negative x axis.  There
\* the sign of the last bit of dy decides between pi and -pi, and np.sin leaves
\* such a bit where the model has an exact 0 (np.sin(-np.pi) is -1.2e-16).
OnCut(dx, dy) == dy[1] = 0 /\ dx[1] < 0

\* A.dot(v) for a matrix and a vector
DotVec(A, v) ==
    Vec([i \in 1..Rows(A[1]) |->
            NSum(Vec([k \in 1..Len(v) |-> NScale(Entry(A, i, k), v[k])]), Len(v))])

\* v.dot(w) for two vectors without pi^2 parts
Inner(v, w) == NSum(Vec([k \in 1..Len(v) |-> NMul(v[k], w[k])]), Len(v))

VecAdd(v, w) == Vec([i \in 1..Len(v) |-> NAdd(v[i], w[i])])

\* np.arctan2(dy, dx) of an axis-aligned offset; on the cut dy is an exact +0.0
Arctan2(dy, dx) ==
    IF dy[1] = 0 THEN (IF dx[1] < 0 THEN PI ELSE NZero)
    ELSE IF dy[1] > 0 THEN HalfPi ELSE NNeg(HalfPi)

\* np.sqrt(dx^2 + dy^2) of an axis-aligned offset
SqrtAligned(dx, dy) == IF dx[1] = 0 THEN <<Abs(dy[1]), dy[2]>> ELSE <<Abs(dx[1]), dx[2]>>

(* ------------------------------ configuration -------------------------- *)
\* rows pulled from self.data in one run
MaxEvents == 3
\* a row that needs arithmetic on self.sigma is pulled only while the numerators
\* and the denominator of self.sigma have at most this many digits in base Base
MaxDigits == 20

\* Barcodes.dat, rows [Subject#, Barcode#]: five robots, then the landmarks
barcodes_data ==
    << <<1, 5>>, <<2, 14>>, <<3, 41>>, <<4, 32>>, <<5, 23>>, <<6, 72>>, <<7, 27>> >>

\* self.landmark_indexes: barcode -> landmark slot, 1 for the first landmark row
landmark_indexes ==
    [b \in {At(barcodes_data, i)[2] : i \in 5..(Len(barcodes_data) - 1)} |->
        (CHOOSE i \in 5..(Len(barcodes_data) - 1) : At(barcodes_data, i)[2] = b) - 4]

\* len(self.landmark_indexes)
NumLandmarks == Cardinality(DOMAIN landmark_indexes)

\* the barcode of another robot: a measurement of it is no landmark measurement
OtherRobot == At(barcodes_data, 0)[2]
\* the barcode that maps to landmark slot k
BarcodeOfSlot(k) == At(barcodes_data, k + 4)[2]

\* 3 + 2 * len(self.landmark_indexes)
Dim == 3 + 2 * NumLandmarks

Diag3(a, b, c) == <<<<a, Zero, Zero>>, <<Zero, b, Zero>>, <<Zero, Zero, c>>>>

\* process noise matrices R: a diagonal one (as in __main__) and a symmetric one
\* with correlated x and y noise
DiagonalR == Diag3(<<2, 1>>, <<2, 1>>, One)
CorrelatedR == <<<<<<2, 1>>, One, Zero>>, <<One, <<2, 1>>, Zero>>, <<Zero, Zero, One>>>>

\* measurement noise matrices Q: a diagonal one (as in __main__) and one without
\* noise on the third (unused) measurement component, which makes Psi singular
DiagonalQ == Diag3(One, One, <<4, 1>>)
DegenerateQ == Diag3(One, One, Zero)

\* the [R, Q] the filter is constructed with
NoiseChoices == { <<DiagonalR, DiagonalQ>>, <<CorrelatedR, DiagonalQ>>, <<DiagonalR, DegenerateQ>> }

\* self.groundtruth_data[0][1:]: the initial pose [x, y, orientation]
InitialPoses == { <<NZero, NZero, NZero>>, <<NZero, NZero, HalfPi>> }

\* self.data[0][0] - self.groundtruth_data[0][0]: when the first row of self.data
\* is, relative to the ground-truth reading the filter starts from
StartOffsets == { <<-1, 2048>>, One }

\* rows of Robot_Odometry.dat as [time since the previous row, forward_V, angular_v];
\* the times are binary fractions, which float64 adds and subtracts exactly
OdometryRows ==
    { <<Zero, One, NZero>>,
      <<<<1, 2048>>, Zero, NNeg(PI)>>,
      <<One, Zero, NZero>>,
      <<One, One, NZero>>,
      <<One, Zero, NNeg(PI)>>,
      <<One, Zero, NScale(<<3, 1>>, PI)>> }

\* rows of Robot_Measurement.dat as
\* [time since the previous row, Subject#, range, bearing]
MeasurementRows ==
    { <<Zero, BarcodeOfSlot(1), One, NZero>>,
      <<Zero, BarcodeOfSlot(2), <<2, 1>>, PI>>,
      <<Zero, BarcodeOfSlot(1), Zero, NZero>>,
      <<Zero, OtherRobot, One, NZero>> }

(* --------------------------------- state ------------------------------- *)
VARIABLES
    states,            \* self.states: the history of state vectors
    stamps,            \* self.stamps
    last_timestamp,    \* self.last_timestamp
    sigma,             \* self.sigma
    landmark_observed, \* self.landmark_observed, index 0 unused
    H, Psi, difference,\* self.H, self.Psi, self.difference; <<>> while not yet set
    R, Q,              \* self.R, self.Q
    data,              \* the row of self.data being processed; <<>> before the first
    clock,             \* the timestamp of that row (self.data is sorted by timestamp)
    nread,             \* rows of self.data consumed so far
    pc,                \* position in the loop of __init__
    first_sight,       \* the last data_association call ran its first-sight branch
    branch             \* the path the last handler call took

vars == <<states, stamps, last_timestamp, sigma, landmark_observed, H, Psi, difference,
          R, Q, data, clock, nread, pc, first_sight, branch>>

Unset == <<>>

\* self.states[-1]
Last(s) == s[Len(s)]

\* 1e-6, the fill of the initial covariance, and 1e6, the variance of a landmark
\* nobody has seen
SmallCovariance == <<1, 1000000>>
LargeVariance == <<1000000, 1>>

\* self.sigma after initialization
InitialSigma ==
    Scaled(Mat([i \in 1..Dim |-> [j \in 1..Dim |->
                   IF i = j /\ i > 3 THEN LargeVariance ELSE SmallCovariance]]))

\* load_data and initialization
Init ==
    /\ \E pose \in InitialPoses :
          states = <<[k \in 1..Dim |-> IF k <= 3 THEN pose[k] ELSE NZero]>>
    /\ last_timestamp = Zero
    /\ stamps = <<last_timestamp>>
    /\ sigma = InitialSigma
    /\ \E noise \in NoiseChoices : R = noise[1] /\ Q = noise[2]
    /\ landmark_observed = [i \in 0..NumLandmarks |-> FALSE]
    /\ H = Unset /\ Psi = Unset /\ difference = Unset
    /\ data = Unset
    /\ clock \in {RAdd(last_timestamp, off) : off \in StartOffsets}
    /\ nread = 0
    /\ pc = "loop"
    /\ first_sight = FALSE
    /\ branch = "init"

\* the integers of the covariance are within the length the model computes with
Bounded(sig) ==
    /\ Len(sig[2]) <= MaxDigits
    /\ \A i, j \in 1..Dim : Len(sig[1][i][j]) <= MaxDigits

(* ----------------------------- motion_update --------------------------- *)
\* the odometry rows are skipped below this time step (seconds)
SkipThreshold == <<1, 1000>>

\* a skip test that has lost its threshold: if (delta_t < 0): return
TooCloseNoThreshold(delta_t) == RLt(delta_t, Zero)

\* if (delta_t < 0.001): return
TooClose(delta_t) == RLt(delta_t, SkipThreshold)

\* Limit theta within [-pi, pi]
LimitTheta(theta_t) ==
    IF NLt(PI, theta_t) THEN NSub(theta_t, TwoPi)
    ELSE IF NLt(theta_t, NNeg(PI)) THEN NAdd(theta_t, TwoPi)
    ELSE theta_t

\* new_state of motion_update
PredictState(prev, control, delta_t) ==
    LET x_t == NAdd(At(prev, 0), Num(RMul(RMul(At(control, 2), Cos(At(prev, 2))), delta_t)))
        y_t == NAdd(At(prev, 1), Num(RMul(RMul(At(control, 2), Sin(At(prev, 2))), delta_t)))
        theta_t == LimitTheta(NAdd(At(prev, 2), NScale(delta_t, At(control, 3))))
    IN  AtPut(AtPut(AtPut(prev, 0, x_t), 1, y_t), 2, theta_t)

\* self.G, linearised about the previous state self.states[-2]
MotionJacobian(prev, control, delta_t) ==
    Scaled(At2Put(At2Put(Identity(Dim),
                         0, 2, RNeg(RMul(RMul(At(control, 2), delta_t), Sin(At(prev, 2))))),
                  1, 2, RMul(RMul(At(control, 2), delta_t), Cos(At(prev, 2)))))

\* a propagation that has lost its right factor: G.dot(sigma)
PropagateNoTranspose(G, sig) == Dot(G, sig)

\* G.dot(sigma).dot(G.T)
Propagate(G, sig) == Dot(Dot(G, sig), Transpose(G))

\* self.sigma[k][k] += self.R[k][k] for k = 0, 1, 2
AddProcessNoise(sig, Rm) ==
    MatAdd(sig, Scaled(Mat([i \in 1..Dim |-> [j \in 1..Dim |->
                               IF i = j /\ i <= 3 THEN Rm[i][i] ELSE Zero]])))

PredictSigma(sig, Rm, prev, control, delta_t) ==
    AddProcessNoise(Propagate(MotionJacobian(prev, control, delta_t), sig), Rm)

motion_update(control) ==
    LET delta_t == RSub(At(control, 0), last_timestamp)
    IN  IF TooClose(delta_t)
        THEN /\ branch' = "skipped"
             /\ UNCHANGED <<states, stamps, last_timestamp, sigma>>
        ELSE /\ states' = Append(states, PredictState(Last(states), control, delta_t))
             /\ last_timestamp' = At(control, 0)
             /\ stamps' = Append(stamps, At(control, 0))
             /\ sigma' = PredictSigma(sigma, R, Last(states), control, delta_t)
             /\ branch' = "predicted"

\* A skipped row computes nothing.  A processed one needs np.cos and np.sin of the
\* heading, and the model draws it a whole number of seconds after last_timestamp.
MotionComputable(control) ==
    LET delta_t == RSub(At(control, 0), last_timestamp)
    IN  TooClose(delta_t)
        \/ (OnGrid(At(Last(states), 2)) /\ delta_t[2] = 1 /\ Bounded(sigma))

\* for data in self.data: if (data[1] == -1): self.motion_update(data)
Motion ==
    /\ pc = "loop"
    /\ nread < MaxEvents
    /\ \E row \in OdometryRows :
          LET control == <<RAdd(clock, row[1]), -1, row[2], row[3]>>
          IN  /\ MotionComputable(control)
              /\ data' = control
              /\ clock' = At(control, 0)
              /\ motion_update(control)
    /\ nread' = nread + 1
    /\ UNCHANGED <<landmark_observed, H, Psi, difference, R, Q, pc, first_sight>>

(* --------------------------- data_association ------------------------- *)
\* an inverse observation that subtracts the heading: cos(bearing_t - theta_t)
ExpectedLandmarkWrongSign(state, measurement) ==
    LET d == NSub(At(measurement, 3), At(state, 2))
    IN  <<NAdd(At(state, 0), Num(RMul(At(measurement, 2), Cos(d)))),
          NAdd(At(state, 1), Num(RMul(At(measurement, 2), Sin(d))))>>

\* [landmark_x_expected, landmark_y_expected]: where the measurement puts the landmark
ExpectedLandmark(state, measurement) ==
    LET x_t == At(state, 0)
        y_t == At(state, 1)
        theta_t == At(state, 2)
        range_t == At(measurement, 2)
        bearing_t == At(measurement, 3)
    IN  <<NAdd(x_t, Num(RMul(range_t, Cos(NAdd(bearing_t, theta_t))))),
          NAdd(y_t, Num(RMul(range_t, Sin(NAdd(bearing_t, theta_t)))))>>

\* self.states[-1] after the first-sight branch
InitLandmark(state, landmark_idx, expected) ==
    AtPut(AtPut(state, 2 * landmark_idx + 1, expected[1]), 2 * landmark_idx + 2, expected[2])

\* a flag set one slot too low: self.landmark_observed[landmark_idx - 1] = True
MarkObservedOffByOne(observed, landmark_idx) == [observed EXCEPT ![landmark_idx - 1] = TRUE]

\* self.landmark_observed after the first-sight branch
MarkObserved(observed, landmark_idx) == [observed EXCEPT ![landmark_idx] = TRUE]

\* F_x of landmark slot i
SelectMatrix(i) ==
    Mat([r \in 1..5 |-> [c \in 1..Dim |->
            IF \/ r <= 3 /\ c = r
               \/ r = 4 /\ c = (2 * i + 1) + 1
               \/ r = 5 /\ c = (2 * i + 2) + 1
            THEN One ELSE Zero]])

\* [delta_x, delta_y]: from the robot to the estimate of landmark slot i
Offset(state, i) ==
    <<NSub(At(state, 2 * i + 1), At(state, 0)), NSub(At(state, 2 * i + 2), At(state, 1))>>

\* H of landmark slot i, for a rational offset with q > 0
ObservationJacobian(i, delta_x, delta_y) ==
    LET q == RAdd(RMul(delta_x, delta_x), RMul(delta_y, delta_y))
        sq == SqrtAligned(delta_x, delta_y)
        H_1 == <<RNeg(RDiv(delta_x, sq)), RNeg(RDiv(delta_y, sq)), Zero,
                 RDiv(delta_x, sq), RDiv(delta_y, sq)>>
        H_2 == <<RDiv(delta_y, q), RNeg(RDiv(delta_x, q)), <<-1, 1>>,
                 RNeg(RDiv(delta_y, q)), RDiv(delta_x, q)>>
        H_3 == <<Zero, Zero, Zero, Zero, Zero>>
    IN  Dot(Scaled(<<H_1, H_2, H_3>>), Scaled(SelectMatrix(i)))

\* Psi = H.dot(self.sigma).dot(H.T) + self.Q
InnovationCovariance(Hm, sig, Qm) == MatAdd(Dot(Dot(Hm, sig), Transpose(Hm)), Scaled(Qm))

\* difference = [range_t - range_expected, bearing_t - bearing_expected, 0]
Innovation(state, i, measurement) ==
    LET delta_x == Offset(state, i)[1][1]
        delta_y == Offset(state, i)[2][1]
        range_expected == SqrtAligned(delta_x, delta_y)
        bearing_expected == NSub(Arctan2(delta_y, delta_x), At(state, 2))
    IN  <<Num(RSub(At(measurement, 2), range_expected)),
          NSub(At(measurement, 3), bearing_expected), NZero>>

\* Pi = difference.T.dot(np.linalg.inv(Psi)).dot(difference)
Mahalanobis(diff, Psim) == Inner(diff, DotVec(Inv3(Psim), diff))

\* H, Psi, difference and Pi of one slot whose q is not 0.  singular:
\* np.linalg.inv(Psi) raises LinAlgError.
Priced(Hm, Psim, diff) ==
    [nan |-> FALSE, singular |-> Singular(Psim), H |-> Hm, Psi |-> Psim,
     difference |-> diff,
     Pi |-> IF Singular(Psim) THEN NZero ELSE Mahalanobis(diff, Psim)]

\* One pass of the loop body for landmark slot i.  nan: q = 0, so H, Psi and Pi
\* are NaN (0/0).
Candidate(i, state, sig, Qm, measurement) ==
    LET delta_x == Offset(state, i)[1][1]
        delta_y == Offset(state, i)[2][1]
    IN  IF delta_x = Zero /\ delta_y = Zero
        THEN [nan |-> TRUE, singular |-> FALSE, H |-> Unset, Psi |-> Unset,
              difference |-> Innovation(state, i, measurement), Pi |-> NZero]
        ELSE Priced(ObservationJacobian(i, delta_x, delta_y),
                    InnovationCovariance(ObservationJacobian(i, delta_x, delta_y), sig, Qm),
                    Innovation(state, i, measurement))

\* min_distance = 1e16
InitialMinDistance == Num(<<BMul(Big(100000000), Big(100000000)), <<1>>, 1>>)

\* if Pi < min_distance; a NaN never compares below
Closer(c, best) == ~c.nan /\ NLt(c.Pi, best.min_distance)

\* the enclosure of pi settles the comparison of Closer
Settled(c, best) == c.nan \/ Decided(NSub(best.min_distance, c.Pi))

\* what the loop carries after the pass for slot i that computed c
Keep(i, c, best) ==
    IF c.singular THEN [best EXCEPT !.raised = TRUE]
    ELSE IF ~Settled(c, best) THEN [best EXCEPT !.settled = FALSE]
    ELSE IF Closer(c, best)
    THEN [found |-> TRUE, slot |-> i, min_distance |-> c.Pi, H |-> c.H, Psi |-> c.Psi,
          difference |-> c.difference, raised |-> FALSE, settled |-> best.settled]
    ELSE best

RECURSIVE Scan(_, _, _, _, _, _, _)
\* for i in range(from, len(self.landmark_indexes) + 1): ... ; best carries
\* min_distance and self.H, self.Psi, self.difference as left by the slots before;
\* the loop ends where np.linalg.inv raises
Scan(from, best, observed, state, sig, Qm, measurement) ==
    IF from > NumLandmarks \/ best.raised THEN best
    ELSE IF ~observed[from] THEN Scan(from + 1, best, observed, state, sig, Qm, measurement)
    ELSE Scan(from + 1, Keep(from, Candidate(from, state, sig, Qm, measurement), best),
              observed, state, sig, Qm, measurement)

\* the values the loop starts from: min_distance = 1e16 and the attributes as they are
ScanStart ==
    [found |-> FALSE, slot |-> 0, min_distance |-> InitialMinDistance, H |-> H, Psi |-> Psi,
     difference |-> difference, raised |-> FALSE, settled |-> TRUE]

IsLandmark(measurement) == At(measurement, 1) \in DOMAIN landmark_indexes

\* self.landmark_observed and self.states[-1] once the first-sight branch has run
ObservedAfterSight(measurement) ==
    LET landmark_idx == landmark_indexes[At(measurement, 1)]
    IN  IF ~landmark_observed[landmark_idx]
        THEN MarkObserved(landmark_observed, landmark_idx)
        ELSE landmark_observed

StateAfterSight(measurement) ==
    LET landmark_idx == landmark_indexes[At(measurement, 1)]
    IN  IF ~landmark_observed[landmark_idx]
        THEN InitLandmark(Last(states), landmark_idx,
                          ExpectedLandmark(Last(states), measurement))
        ELSE Last(states)

\* the outcome of the scan of data_association for this measurement
Association(measurement) ==
    Scan(1, ScanStart, ObservedAfterSight(measurement), StateAfterSight(measurement),
         sigma, Q, measurement)

\* the attributes as data_association leaves them when its scan ended with best
Associated(measurement, best) ==
    /\ first_sight' = ~landmark_observed[landmark_indexes[At(measurement, 1)]]
    /\ landmark_observed' = ObservedAfterSight(measurement)
    /\ states' = [states EXCEPT ![Len(states)] = StateAfterSight(measurement)]
    /\ H' = best.H
    /\ Psi' = best.Psi
    /\ difference' = best.difference
    /\ branch' = IF best.raised THEN "raised"
                 ELSE IF best.found THEN "associated" ELSE "no_match"
    /\ pc' = IF best.raised THEN "LinAlgError" ELSE "update"

data_association(measurement) ==
    IF ~IsLandmark(measurement)
    THEN /\ branch' = "foreign"
         /\ pc' = "update"
         /\ first_sight' = FALSE
         /\ UNCHANGED <<states, landmark_observed, H, Psi, difference>>
    ELSE Associated(measurement, Association(measurement))

\* the offset of slot i is one the model computes H and the innovation for
OffsetComputable(state, i) ==
    /\ IsRational(Offset(state, i)[1]) /\ IsRational(Offset(state, i)[2])
    /\ ~IsWide(Offset(state, i)[1][1]) /\ ~IsWide(Offset(state, i)[2][1])
    /\ Aligned(Offset(state, i)[1][1], Offset(state, i)[2][1])
    /\ ~OnCut(Offset(state, i)[1][1], Offset(state, i)[2][1])

\* np.cos, np.sin, np.arctan2 and np.sqrt are evaluated where the model defines
\* them, and every comparison of two distances is settled
AssociationComputable(measurement) ==
    IsLandmark(measurement) =>
        /\ Bounded(sigma)
        /\ OnGrid(NAdd(At(measurement, 3), At(Last(states), 2)))
        /\ \A i \in 1..NumLandmarks :
              ObservedAfterSight(measurement)[i] =>
                  OffsetComputable(StateAfterSight(measurement), i)
        /\ Association(measurement).settled

\* else: self.data_association(data)
DataAssociation ==
    /\ pc = "loop"
    /\ 0 < nread /\ nread < MaxEvents
    /\ \E row \in MeasurementRows :
          LET measurement == <<RAdd(clock, row[1]), row[2], row[3], row[4]>>
          IN  /\ AssociationComputable(measurement)
              /\ data' = measurement
              /\ clock' = At(measurement, 0)
              /\ data_association(measurement)
    /\ nread' = nread + 1
    /\ UNCHANGED <<stamps, last_timestamp, sigma, R, Q>>

(* -------------------------- measurement_update ------------------------- *)
\* self.K = self.sigma.dot(self.H.T).dot(np.linalg.inv(self.Psi))
KalmanGain(sig, Hm, Psim) == Dot(Dot(sig, Transpose(Hm)), Inv3(Psim))

\* new_state = self.states[-1] + self.K.dot(self.difference)
CorrectState(state, K, diff) == VecAdd(state, DotVec(K, diff))

\* (np.identity(n) - self.K.dot(self.H)).dot(self.sigma)
CorrectSigma(sig, K, Hm) == Dot(MatSub(Scaled(Identity(Dim)), Dot(K, Hm)), sig)

measurement_update(measurement) ==
    IF ~IsLandmark(measurement)
    THEN /\ pc' = "loop"
         /\ UNCHANGED <<states, stamps, last_timestamp, sigma, branch>>
    ELSE IF H = Unset
    THEN \* self.H was never assigned: AttributeError
         /\ pc' = "AttributeError"
         /\ branch' = "raised"
         /\ UNCHANGED <<states, stamps, last_timestamp, sigma>>
    ELSE LET K == KalmanGain(sigma, H, Psi)
         IN  /\ states' = Append(states, CorrectState(Last(states), K, difference))
             /\ last_timestamp' = At(measurement, 0)
             /\ stamps' = Append(stamps, At(measurement, 0))
             /\ sigma' = CorrectSigma(sigma, K, H)
             /\ branch' = IF branch = "associated" THEN "corrected" ELSE "corrected_stale"
             /\ pc' = "loop"

\* self.measurement_update(data)
MeasurementUpdate ==
    /\ pc = "update"
    /\ measurement_update(data)
    /\ UNCHANGED <<landmark_observed, H, Psi, difference, R, Q, data, clock, nread,
                   first_sight>>

Next == Motion \/ DataAssociation \/ MeasurementUpdate

Spec == Init /\ [][Next]_vars

(* -------------------------------- claims ------------------------------- *)
\* the step pulls a new row of self.data
PullsRow == pc = "loop" /\ nread' # nread
\* the step is motion_update / data_association on a new row
MotionStep == PullsRow /\ At(data', 1) = -1
AssociationStep == PullsRow /\ IsLandmark(data')

ObservedSlots == {i \in 1..NumLandmarks : landmark_observed[i]}
\* what the loop body of data_association computes for slot i from the row in data
ThisCandidate(i) == Candidate(i, Last(states), sigma, Q, data)

\* C1: after data_association of a landmark measurement, self.H, self.Psi and
\* self.difference are those computed from this measurement for the observed slot
\* of least Mahalanobis distance, the lowest slot winning a tie.
C1_AssociationKeepsTheClosest ==
    (pc = "update" /\ IsLandmark(data)) =>
        \E i \in ObservedSlots :
            /\ ~ThisCandidate(i).nan
            /\ \A j \in ObservedSlots :
                  ~ThisCandidate(j).nan =>
                      \/ NLt(ThisCandidate(i).Pi, ThisCandidate(j).Pi)
                      \/ (~NLt(ThisCandidate(j).Pi, ThisCandidate(i).Pi) /\ i <= j)
            /\ H = ThisCandidate(i).H
            /\ Psi = ThisCandidate(i).Psi
            /\ difference = ThisCandidate(i).difference

\* C2: a measurement whose Psi cannot be inverted is dropped: state history,
\* covariance, timestamps and observed flags stay as they were and the loop is
\* not left by an exception.
C2_DegenerateMeasurementIsDropped ==
    [][(AssociationStep /\ Association(data').raised) =>
            /\ pc' # "LinAlgError"
            /\ UNCHANGED <<states, stamps, sigma, landmark_observed>>]_vars

\* C3: after every processed odometry row the heading lies in (-pi, pi].
C3_HeadingIsNormalised ==
    branch = "predicted" =>
        /\ NLt(NNeg(PI), At(Last(states), 2))
        /\ ~NLt(PI, At(Last(states), 2))

\* C4: the history is append-only: no step changes an entry that is already in
\* it, and a step adds at most one entry at the end.
C4_HistoryIsAppendOnly ==
    [][/\ Len(states') \in {Len(states), Len(states) + 1}
       /\ \A k \in 1..Len(states) : states'[k] = states[k]]_vars

\* the landmark part [x_l, y_l] of a state vector for slot i
LandmarkOf(state, i) == <<At(state, 2 * i + 1), At(state, 2 * i + 2)>>

\* C5: on the first sight of a landmark the innovation of the slot just
\* initialised is zero, and the correction that follows leaves its estimate as
\* it is.
C5_FirstSightIsAFixedPoint ==
    [][/\ (AssociationStep /\ ~landmark_observed[landmark_indexes[At(data', 1)]]) =>
              Innovation(Last(states'), landmark_indexes[At(data', 1)], data')
                  = <<NZero, NZero, NZero>>
       /\ (pc = "update" /\ first_sight /\ pc' = "loop") =>
              LandmarkOf(Last(states'), landmark_indexes[At(data, 1)])
                  = LandmarkOf(Last(states), landmark_indexes[At(data, 1)])]_vars

\* sigma with the whole of R added to its top-left 3x3 block
WithProcessNoise(sig, Rm) ==
    MatAdd(sig, Scaled(Mat([i \in 1..Dim |-> [j \in 1..Dim |->
                               IF i <= 3 /\ j <= 3 THEN Rm[i][j] ELSE Zero]])))

\* A and B hold the same values
SameMatrix(A, B) ==
    \A i \in 1..Rows(A[1]) : \A j \in 1..Cols(A[1]) :
        BMul(A[1][i][j], B[2]) = BMul(B[1][i][j], A[2])

\* C6: a processed odometry row with v = 0 and w = 0 leaves the state vector as
\* it is and adds the whole 3x3 matrix R to the pose block of the covariance.
C6_StandingStillAddsR ==
    [][(/\ MotionStep
        /\ At(data', 2) = Zero /\ At(data', 3) = NZero
        /\ ~RLt(RSub(At(data', 0), last_timestamp), SkipThreshold)) =>
            /\ Last(states') = Last(states)
            /\ SameMatrix(sigma', WithProcessNoise(sigma, R))]_vars

\* C7: the first measurement of a landmark puts its two components at
\* x + r cos(b + theta), y + r sin(b + theta), sets its flag, and changes neither
\* the pose nor any other landmark's components or flag.
C7_FirstSightInitialisesTheLandmark ==
    [][(AssociationStep /\ ~landmark_observed[landmark_indexes[At(data', 1)]]) =>
            LET idx == landmark_indexes[At(data', 1)]
                old == Last(states)
                new == Last(states')
                angle == NAdd(At(data', 3), At(old, 2))
            IN  /\ Len(states') = Len(states)
                /\ At(new, 2 * idx + 1)
                       = NAdd(At(old, 0), Num(RMul(At(data', 2), Cos(angle))))
                /\ At(new, 2 * idx + 2)
                       = NAdd(At(old, 1), Num(RMul(At(data', 2), Sin(angle))))
                /\ landmark_observed'[idx]
                /\ \A k \in 0..(Dim - 1) :
                      k \notin {2 * idx + 1, 2 * idx + 2} => At(new, k) = At(old, k)
                /\ \A i \in 0..NumLandmarks :
                      i # idx => landmark_observed'[i] = landmark_observed[i]]_vars

\* a landmark seen for the first time from a pose with a quarter-turn heading
C7_Witness ==
    /\ pc = "update" /\ first_sight /\ branch = "associated"
    /\ At(Last(states), 2) = HalfPi
    /\ landmark_observed[2]

\* C8: an odometry row less than 0.001 s after last_timestamp (zero and negative
\* steps included) changes nothing of the filter.
C8_CloseRowsAreSkipped ==
    [][(MotionStep /\ RLt(RSub(At(data', 0), last_timestamp), SkipThreshold)) =>
            UNCHANGED <<states, stamps, last_timestamp, sigma, landmark_observed,
                        H, Psi, difference>>]_vars

\* a skipped odometry row that lies before last_timestamp
C8_Witness == branch = "skipped" /\ RLt(At(data, 0), last_timestamp)

\* C9: every observed flag starts false, is set only by the measurement of the
\* barcode that maps to its slot, and is never cleared.
C9_ObservedFlagsAreSetOnce ==
    /\ \A i \in 0..NumLandmarks : ~landmark_observed[i]
    /\ [][\A i \in 0..NumLandmarks :
             /\ landmark_observed[i] => landmark_observed'[i]
             /\ (~landmark_observed[i] /\ landmark_observed'[i]) =>
                    (AssociationStep /\ landmark_indexes[At(data', 1)] = i)]_vars

\* both landmarks seen, the second one corrected
C9_Witness == landmark_observed[1] /\ landmark_observed[2] /\ branch = "corrected"

\* C10: the covariance is symmetric after every prediction and every correction.
C10_SigmaIsSymmetric == IsSymmetric(sigma)

\* a correction after the robot has driven
C10_Witness ==
    /\ branch = "corrected"
    /\ Len(states) >= 3
    /\ At(states[2], 0) # At(states[1], 0)

====
